---- MODULE Spec2Model ----
(***************************************************************************)
(* Model of Cppsched::Scheduler (src/Scheduler.hpp): the time-ordered      *)
(* multimap `tasks`, the id index `tasks_map`, the holding multimap        *)
(* `completed_interval_tasks`, the InterruptableSleep flag, the dispatcher *)
(* loop, the worker pool's executions and the caller operations.           *)
(*                                                                         *)
(* Time is an integer clock `now` advanced by Tick.  A Task object lives in *)
(* a slot h of `task` from its make_shared until its last shared_ptr goes  *)
(* away; a multimap node is the pair [time, h] (a task is never twice in   *)
(* the same multimap under the same key, because every re-insertion uses a *)
(* strictly later key); an iterator is [c, time, h] with c naming the      *)
(* multimap it points into.                                                *)
(***************************************************************************)
EXTENDS Integers, Sequences, FiniteSets, TLC

\* ---------------------------------------------------------------- bounds
MaxTime == 2

\* the inputs callers draw from
Ids == {"a"}
Slots == {1, 2}
Durations == {1, 2}
CronExprs == {"*/2", "blah blah"}
AtTimes == {0, MaxTime}
\* time strings: a time of day, a date in either of the two formats, and text
\* that is neither; the clock's instant 0 is 1970-01-01 00:00:00, local time
AtStrings == {"00:00:01", "1970-01-01 00:00:02", "1970/01/01 00:00:00", "blah blah"}
\* std::chrono::hours(24): a day is longer than the runs looked at
Day == MaxTime + 1

Forever == -1
\* what a call hands back: its outcome and, for get_tasks_list, the vector
Ret(out, list) == [out |-> out, list |-> list]
None == Ret("none", <<>>)

VARIABLES
    now,                        \* Clock::now()
    task,                       \* the Task objects: slot -> fields (Free: no object)
    tasks,                      \* std::multimap tasks, as a key-ordered sequence of nodes
    completed_interval_tasks,   \* std::multimap completed_interval_tasks, as a set of nodes
    tasks_map,                  \* std::map id -> iterator
    lock,                       \* std::mutex lock: "free", or "disp" inside manage_tasks
    interrupted,                \* InterruptableSleep::interrupted
    done,                       \* std::atomic<bool> done
    pc,                         \* where the dispatcher thread is
    wake,                       \* the instant the dispatcher sleeps until (Forever: sleep())
    execs,                      \* the pool's jobs not yet finished: job -> how many
    ret,                        \* what the call in progress returns or throws
    sleeper_m,                  \* InterruptableSleep::m: the thread that holds it, or "free"
    notified,                   \* cv.notify_one() has reached the thread blocked in cv.wait
    tpc,                        \* where each caller, worker and destroying thread is
    hist                        \* history: what the sweeps so far did with each task

\* the threads followed lock by lock: they stay where they are in the steps
\* that take a whole call at once
lockvars == <<sleeper_m, notified, tpc>>

vars == <<now, task, tasks, completed_interval_tasks, tasks_map, lock,
          interrupted, done, pc, wake, execs, ret, lockvars, hist>>

\* ------------------------------------------------------------ Task types
\* a one-shot task taken for a recurring one
Recur_always(t) == TRUE
Recur(t) == t.kind \in {"every", "cron", "interval"}
\* the interval flag lost: the task is handled as an every task
IsInterval_lost(t) == FALSE
\* an every task flagged as an interval task as well
IsInterval_every(t) == t.kind \in {"interval", "every"}
IsInterval(t) == t.kind = "interval"

\* the cron evaluator: "*/k" matches the instants that are multiples of k
CronValid(e) == e = "*/2"
CronStep(e) == 2
cron_next(e, t) == ((t \div CronStep(e)) + 1) * CronStep(e)

\* Task::get_new_time() evaluated at instant t
\* EveryTask answering with the dummy instant of the one-shot tasks
get_new_time_dummy(tk, t) ==
    CASE tk.kind \in {"in", "at", "every", "interval"} -> 0
      [] tk.kind = "cron" -> cron_next(tk.time, t)

\* EveryTask answering Clock::now(), the period not added
get_new_time_noperiod(tk, t) ==
    CASE tk.kind \in {"in", "at"} -> 0
      [] tk.kind \in {"every", "interval"} -> t
      [] tk.kind = "cron" -> cron_next(tk.time, t)

get_new_time(tk, t) ==
    CASE tk.kind \in {"in", "at"} -> 0
      [] tk.kind \in {"every", "interval"} -> t + tk.time
      [] tk.kind = "cron" -> cron_next(tk.time, t)

NewTask(id, kind, time) ==
    [id |-> id, kind |-> kind, time |-> time, enabled |-> TRUE, removed |-> FALSE]
Free == [id |-> "", kind |-> "free", time |-> 0, enabled |-> FALSE, removed |-> FALSE]

\* ------------------------------------------------------- container helpers
Node(time, h) == [time |-> time, h |-> h]
Iter(c, n) == [c |-> c, time |-> n.time, h |-> n.h]

\* a multimap placing a node before the nodes of equal key
Emplace_front(m, n) ==
    LET k == Cardinality({i \in 1..Len(m) : m[i].time < n.time})
    IN  SubSeq(m, 1, k) \o <<n>> \o SubSeq(m, k + 1, Len(m))

\* multimap::emplace: after the last node whose key is <= the new key
Emplace(m, n) ==
    LET k == Cardinality({i \in 1..Len(m) : m[i].time <= n.time})
    IN  SubSeq(m, 1, k) \o <<n>> \o SubSeq(m, k + 1, Len(m))

\* map::operator[] assignment and map::erase
Put(m, k, v) == [x \in (DOMAIN m) \cup {k} |-> IF x = k THEN v ELSE m[x]]
Erase(m, k) == [x \in (DOMAIN m) \ {k} |-> m[x]]

InTasks(h) == \E i \in 1..Len(tasks) : tasks[i].h = h
InHolding(h) == \E n \in completed_interval_tasks : n.h = h

\* std::shared_ptr<Task>: the object is destroyed with its last owner (a node
\* of either multimap, or a job's captured copy)
Owned(h, m, hold, ex) ==
    \/ \E i \in 1..Len(m) : m[i].h = h
    \/ \E n \in hold : n.h = h
    \/ \E e \in DOMAIN ex : e.h = h
Release(tk, m, hold, ex) ==
    [h \in Slots |-> IF Owned(h, m, hold, ex) THEN tk[h] ELSE Free]

\* the node an iterator points at still exists
Valid(it) ==
    IF it.c = "tasks"
    THEN \E i \in 1..Len(tasks) : tasks[i] = Node(it.time, it.h)
    ELSE Node(it.time, it.h) \in completed_interval_tasks

\* it->second: the Task an iterator leads to.  Through an iterator to an erased
\* node the read is undefined: the freed node may still hold its old pointer,
\* may have been reused for a node of any other task, or hold nothing usable (0).
Deref(it) == IF Valid(it) THEN {it.h} ELSE {0} \cup {h \in Slots : task[h] # Free}

\* ------------------------------------------------------------- executions
\* A job is [h, pc, key]: pc = "run" from threads.push until task->f() has
\* returned (waiting for a worker or executing), then for the interval wrapper
\* "erase", once its add_task has returned; key is the key of the holding node
\* the wrapper captured (0 for other jobs).
Exec(h, key) == [h |-> h, pc |-> "run", key |-> key]
\* threads.push queueing the job twice
Push_twice(ex, e) == IF e \in DOMAIN ex THEN [ex EXCEPT ![e] = @ + 2] ELSE ex @@ (e :> 2)
Push(ex, e) == IF e \in DOMAIN ex THEN [ex EXCEPT ![e] = @ + 1] ELSE ex @@ (e :> 1)
Pop(ex, e) ==
    IF ex[e] = 1 THEN [x \in (DOMAIN ex) \ {e} |-> ex[x]] ELSE [ex EXCEPT ![e] = @ - 1]

\* `ret` is what the call in progress hands back to its caller: it is set by
\* the call's step and cleared when the caller has taken it (Return), before
\* any other step.
Idle == ret = None

\* ----------------------------------------------------------------- threads
\* the threads that call into the scheduler, the pool thread that runs the
\* interval wrapper, and the thread that destroys the scheduler
CallerThreads == {"c1", "c2"}
WorkerThreads == {"w1"}
Main == "main"
Threads == CallerThreads \cup WorkerThreads \cup {Main}

\* ----------------------------------------------------------------- history
\* hist.skip[h]: "skipped" once a sweep has passed over task h because it was
\* disabled, "resumed" once a later sweep has submitted it again;
\* hist.late: the sweep in progress began after the shutdown flag was set;
\* hist.drop[h]: a sweep has found task h triggered and removed;
\* hist.shot: the ids of the one-shot tasks that a sweep found triggered and
\* disabled, under which no task has been registered since.
\* The history is read by no step of the program.
NoHist ==
    [skip |-> [h \in Slots |-> ""], late |-> FALSE, drop |-> [h \in Slots |-> FALSE],
     shot |-> {}]
Registered(hs, id) == [hs EXCEPT !.shot = @ \ {id}]
Forget(hs, tk) ==
    [hs EXCEPT !.skip = [h \in Slots |-> IF tk[h] = Free THEN "" ELSE hs.skip[h]],
               !.drop = [h \in Slots |-> tk[h] # Free /\ hs.drop[h]]]
Swept(hs, tk, trig) ==
    [hs EXCEPT !.skip =
        [h \in Slots |->
            IF h \notin trig THEN hs.skip[h]
            ELSE IF tk[h].enabled /\ ~tk[h].removed
                 THEN (IF hs.skip[h] = "skipped" THEN "resumed" ELSE "")
                 ELSE IF ~tk[h].removed THEN "skipped" ELSE hs.skip[h]],
               !.drop = [h \in Slots |-> hs.drop[h] \/ (h \in trig /\ tk[h].removed)],
               !.shot = @ \cup {tk[h].id : h \in {x \in trig : /\ tk[x].kind \in {"in", "at"}
                                                            /\ ~tk[x].enabled
                                                            /\ ~tk[x].removed}}]

\* ------------------------------------------------------------------ Init
Init ==
    /\ now = 0
    /\ task = [h \in Slots |-> Free]
    /\ tasks = <<>>
    /\ completed_interval_tasks = {}
    /\ tasks_map = <<>>
    /\ lock = "free"
    /\ interrupted = FALSE
    /\ done = FALSE
    /\ pc = "loop"
    /\ wake = Forever
    /\ execs = <<>>
    /\ ret = None
    /\ sleeper_m = "free"
    /\ notified = FALSE
    /\ tpc = [t \in Threads |-> "idle"]
    /\ hist = NoHist

Tick ==
    /\ Idle
    /\ now < MaxTime
    /\ now' = now + 1
    /\ ret' = None
    /\ UNCHANGED <<task, tasks, completed_interval_tasks, tasks_map, lock,
                   interrupted, done, pc, wake, execs, lockvars, hist>>

\* ------------------------------------------------ registration (callers)
\* tasks_map.find(task_id) != tasks_map.end()
Exists(id) == id \in DOMAIN tasks_map

\* the sleeper interrupted before the index is looked up
add_task_interrupting(id, time, tk) ==
    /\ interrupted' = TRUE
    /\ IF ~Exists(id)
       THEN /\ \E h \in Slots : task[h] = Free
            /\ LET h == CHOOSE x \in Slots :
                           task[x] = Free /\ \A y \in Slots : task[y] = Free => x <= y
               IN  /\ task' = [task EXCEPT ![h] = tk]
                   /\ tasks' = Emplace(tasks, Node(time, h))
                   /\ tasks_map' = Put(tasks_map, id, Iter("tasks", Node(time, h)))
            /\ ret' = Ret("ok", <<>>)
       ELSE /\ ret' = Ret("TaskAlreadyExists", <<>>)
            /\ UNCHANGED <<task, tasks, tasks_map>>

\* the insertion without sleeper.interrupt()
add_task_silent(id, time, tk) ==
    IF ~Exists(id)
    THEN /\ \E h \in Slots : task[h] = Free
         /\ LET h == CHOOSE x \in Slots :
                        task[x] = Free /\ \A y \in Slots : task[y] = Free => x <= y
            IN  /\ task' = [task EXCEPT ![h] = tk]
                /\ tasks' = Emplace(tasks, Node(time, h))
                /\ tasks_map' = Put(tasks_map, id, Iter("tasks", Node(time, h)))
         /\ interrupted' = interrupted
         /\ ret' = Ret("ok", <<>>)
    ELSE /\ ret' = Ret("TaskAlreadyExists", <<>>)
         /\ UNCHANGED <<task, tasks, tasks_map, interrupted>>

\* the unchecked overload called in place of the checked one
add_task_unchecked(id, time, tk) ==
    /\ \E h \in Slots : task[h] = Free
    /\ LET h == CHOOSE x \in Slots :
                   task[x] = Free /\ \A y \in Slots : task[y] = Free => x <= y
       IN  /\ task' = [task EXCEPT ![h] = tk]
           /\ tasks' = Emplace(tasks, Node(time, h))
           /\ tasks_map' = Put(tasks_map, id, Iter("tasks", Node(time, h)))
    /\ interrupted' = TRUE
    /\ ret' = Ret("ok", <<>>)

\* add_task(task_id, time, t): the checked insertion used by in/at/every/cron/interval
add_task(id, time, tk) ==
    IF ~Exists(id)
    THEN /\ \E h \in Slots : task[h] = Free
         /\ LET h == CHOOSE x \in Slots :
                        task[x] = Free /\ \A y \in Slots : task[y] = Free => x <= y
            IN  /\ task' = [task EXCEPT ![h] = tk]
                /\ tasks' = Emplace(tasks, Node(time, h))
                /\ tasks_map' = Put(tasks_map, id, Iter("tasks", Node(time, h)))
         /\ interrupted' = TRUE
         /\ ret' = Ret("ok", <<>>)
    ELSE /\ ret' = Ret("TaskAlreadyExists", <<>>)
         /\ UNCHANGED <<task, tasks, tasks_map, interrupted>>

\* A caller runs its call in one step: the mutex is free before and after.
Caller == Idle /\ lock = "free" /\ ~done
CallFrame ==
    UNCHANGED <<now, lockvars, hist, completed_interval_tasks, lock, done, pc, wake, execs>>
\* the same for a registration of id, which the history takes note of
RegFrame(id) ==
    /\ hist' = IF ret'.out = "ok" THEN Registered(hist, id) ELSE hist
    /\ UNCHANGED <<now, lockvars, completed_interval_tasks, lock, done, pc, wake, execs>>

In(id, d) ==
    /\ Caller
    /\ add_task(id, now + d, NewTask(id, "in", 0))
    /\ RegFrame(id)

At(id, tp) ==
    /\ Caller
    /\ add_task(id, tp, NewTask(id, "at", 0))
    /\ RegFrame(id)

\* try_parse(tm, expression, format) followed by std::mktime(&tm): the instant
\* the expression reads as in that format, NoParse if std::get_time fails
NoParse == -1
try_parse(expression, format) ==
    CASE format = "%H:%M:%S" /\ expression = "00:00:01" -> 1
      [] format = "%Y-%m-%d %H:%M:%S" /\ expression = "1970-01-01 00:00:02" -> 2
      [] format = "%Y/%m/%d %H:%M:%S" /\ expression = "1970/01/01 00:00:00" -> 0
      [] OTHER -> NoParse

\* a time of day that has passed taken as today's
ParseAt_today(time) ==
    IF try_parse(time, "%H:%M:%S") # NoParse
    THEN try_parse(time, "%H:%M:%S")
    ELSE IF try_parse(time, "%Y-%m-%d %H:%M:%S") # NoParse
    THEN try_parse(time, "%Y-%m-%d %H:%M:%S")
    ELSE try_parse(time, "%Y/%m/%d %H:%M:%S")

\* the time point at(task_id, string) arrives at: a time of day that has
\* passed means the next day
ParseAt(time) ==
    IF try_parse(time, "%H:%M:%S") # NoParse
    THEN LET tp == try_parse(time, "%H:%M:%S")
         IN  IF now >= tp THEN tp + Day ELSE tp
    ELSE IF try_parse(time, "%Y-%m-%d %H:%M:%S") # NoParse
    THEN try_parse(time, "%Y-%m-%d %H:%M:%S")
    ELSE try_parse(time, "%Y/%m/%d %H:%M:%S")

\* at(task_id, string) waking the dispatcher before it throws
AtString_interrupting(id, time) ==
    /\ Caller
    /\ IF ParseAt(time) # NoParse
       THEN add_task(id, ParseAt(time), NewTask(id, "at", 0))
       ELSE /\ ret' = Ret("BadDateFormat", <<>>)
            /\ interrupted' = TRUE
            /\ UNCHANGED <<task, tasks, tasks_map>>
    /\ RegFrame(id)

AtString(id, time) ==
    /\ Caller
    /\ IF ParseAt(time) # NoParse
       THEN add_task(id, ParseAt(time), NewTask(id, "at", 0))
       ELSE /\ ret' = Ret("BadDateFormat", <<>>)
            /\ UNCHANGED <<task, tasks, tasks_map, interrupted>>
    /\ RegFrame(id)

Every(id, d) ==
    /\ Caller
    /\ add_task(id, get_new_time(NewTask(id, "every", d), now), NewTask(id, "every", d))
    /\ RegFrame(id)

\* interval() inserting under get_new_time(), as every() does
Interval_delayed(id, d) ==
    /\ Caller
    /\ add_task(id, get_new_time(NewTask(id, "interval", d), now), NewTask(id, "interval", d))
    /\ RegFrame(id)

Interval(id, d) ==
    /\ Caller
    /\ add_task(id, now, NewTask(id, "interval", d))
    /\ RegFrame(id)

Cron(id, e) ==
    /\ Caller
    /\ IF CronValid(e)
       THEN add_task(id, get_new_time(NewTask(id, "cron", e), now), NewTask(id, "cron", e))
       ELSE /\ ret' = Ret("BadCronExpression", <<>>)
            /\ UNCHANGED <<task, tasks, tasks_map, interrupted>>
    /\ RegFrame(id)

\* the call returns (or its exception reaches the caller)
Return ==
    /\ ret # None
    /\ ret' = None
    /\ UNCHANGED <<now, lockvars, hist, task, tasks, completed_interval_tasks, tasks_map, lock,
                   interrupted, done, pc, wake, execs>>

\* ------------------------------------------------- control (callers)
SetRemoved(h) == IF h = 0 THEN task ELSE [task EXCEPT ![h].removed = TRUE]
SetEnabled(h, v) == IF h = 0 THEN task ELSE [task EXCEPT ![h].enabled = v]

\* remove_task taking the jobs of the task it removes out of the pool
remove_task_cancelling(id) ==
    /\ Caller
    /\ IF Exists(id)
       THEN /\ \E h \in Deref(tasks_map[id]) :
                  /\ task' = SetRemoved(h)
                  /\ execs' = [e \in {x \in DOMAIN execs : x.h # h} |-> execs[e]]
            /\ tasks_map' = Erase(tasks_map, id)
            /\ ret' = Ret("true", <<>>)
       ELSE /\ ret' = Ret("false", <<>>)
            /\ UNCHANGED <<task, tasks_map, execs>>
    /\ UNCHANGED <<tasks, interrupted>>
    /\ UNCHANGED <<now, lockvars, hist, completed_interval_tasks, lock, done, pc, wake>>

\* remove_task erasing the node its index entry points at as well
remove_task_erasing(id) ==
    /\ Caller
    /\ IF Exists(id)
       THEN /\ \E h \in Deref(tasks_map[id]) : task' = SetRemoved(h)
            /\ tasks_map' = Erase(tasks_map, id)
            /\ tasks' = SelectSeq(tasks, LAMBDA nd : nd # Node(tasks_map[id].time, tasks_map[id].h))
            /\ ret' = Ret("true", <<>>)
       ELSE /\ ret' = Ret("false", <<>>)
            /\ UNCHANGED <<task, tasks, tasks_map>>
    /\ UNCHANGED interrupted
    /\ CallFrame

remove_task(id) ==
    /\ Caller
    /\ IF Exists(id)
       THEN /\ \E h \in Deref(tasks_map[id]) : task' = SetRemoved(h)
            /\ tasks_map' = Erase(tasks_map, id)
            /\ ret' = Ret("true", <<>>)
       ELSE /\ ret' = Ret("false", <<>>)
            /\ UNCHANGED <<task, tasks_map>>
    /\ UNCHANGED <<tasks, interrupted>>
    /\ CallFrame

\* disable_task calling sleeper.interrupt() when it has found the task
disable_task_interrupting(id) ==
    /\ Caller
    /\ IF Exists(id)
       THEN /\ \E h \in Deref(tasks_map[id]) : task' = SetEnabled(h, FALSE)
            /\ interrupted' = TRUE
            /\ ret' = Ret("true", <<>>)
       ELSE /\ ret' = Ret("false", <<>>)
            /\ UNCHANGED <<task, interrupted>>
    /\ UNCHANGED <<tasks, tasks_map>>
    /\ CallFrame

disable_task(id) ==
    /\ Caller
    /\ IF Exists(id)
       THEN /\ \E h \in Deref(tasks_map[id]) : task' = SetEnabled(h, FALSE)
            /\ ret' = Ret("true", <<>>)
       ELSE /\ ret' = Ret("false", <<>>)
            /\ UNCHANGED task
    /\ UNCHANGED <<tasks, tasks_map, interrupted>>
    /\ CallFrame

enable_task(id) ==
    /\ Caller
    /\ IF Exists(id)
       THEN /\ \E h \in Deref(tasks_map[id]) : task' = SetEnabled(h, TRUE)
            /\ ret' = Ret("true", <<>>)
       ELSE /\ ret' = Ret("false", <<>>)
            /\ UNCHANGED task
    /\ UNCHANGED <<tasks, tasks_map, interrupted>>
    /\ CallFrame

\* std::map iterates its keys in ascending order
IdOrder == <<"a">>
Report(h) ==
    IF h = 0
    THEN [id |-> "?", next_run |-> 0, enabled |-> FALSE]
    ELSE [id |-> task[h].id, next_run |-> get_new_time(task[h], now),
          enabled |-> task[h].enabled]

RECURSIVE Reports(_, _)
Reports(i, pick) ==
    IF i > Len(IdOrder) THEN <<>>
    ELSE (IF IdOrder[i] \in DOMAIN tasks_map
          THEN <<Report(pick[IdOrder[i]])>> ELSE <<>>) \o Reports(i + 1, pick)

get_tasks_list ==
    /\ Caller
    /\ \E pick \in [DOMAIN tasks_map -> {0} \cup Slots] :
          /\ \A id \in DOMAIN tasks_map : pick[id] \in Deref(tasks_map[id])
          /\ ret' = Ret("list", Reports(1, pick))
    /\ UNCHANGED <<task, tasks, tasks_map, interrupted>>
    /\ CallFrame

\* ~Scheduler(): done = true; sleeper.interrupt();
Shutdown ==
    /\ Idle
    /\ ~done
    /\ done' = TRUE
    /\ interrupted' = TRUE
    /\ ret' = None
    /\ UNCHANGED <<now, lockvars, hist, task, tasks, completed_interval_tasks, tasks_map, lock,
                   pc, wake, execs>>

\* -------------------------------------------------------- manage_tasks
\* task->enabled && ! task->removed
\* the removed flag not consulted
ShouldRun_unremoved(tk) == tk.enabled
ShouldRun(tk) == tk.enabled /\ ~tk.removed

\* lower_bound in place of upper_bound: a node due at t itself is left out
Due_before(t) == Cardinality({i \in 1..Len(tasks) : tasks[i].time < t})

\* tasks.upper_bound(t) - tasks.begin()
Due(t) == Cardinality({i \in 1..Len(tasks) : tasks[i].time <= t})

\* the loop over the triggered nodes; log is the sequence of the threads.push
\* calls, in the order the loop makes them
RECURSIVE Fire(_, _, _)
Fire(i, n, acc) ==
    IF i > n THEN acc
    ELSE LET nd == tasks[i]
             tk == task[nd.h]
             ran == IF ShouldRun(tk)
                    THEN [acc EXCEPT !.execs =
                              Push(@, Exec(nd.h, IF IsInterval(tk) THEN nd.time ELSE 0)),
                                     !.log = Append(@, nd)]
                    ELSE acc
             nxt == IF IsInterval(tk)
                    THEN IF ShouldRun(tk)
                         THEN [ran EXCEPT !.hold = @ \cup {nd},
                                          !.map = Put(@, tk.id, Iter("holding", nd))]
                         ELSE [acc EXCEPT !.rec = Emplace(@, Node(get_new_time(tk, now), nd.h))]
                    ELSE IF Recur(tk)
                         THEN [ran EXCEPT !.rec = Emplace(@, Node(get_new_time(tk, now), nd.h))]
                         ELSE [ran EXCEPT !.nonrec = Append(@, nd.h)]
         IN  Fire(i + 1, n, nxt)

\* re-add the tasks that are recurring
RECURSIVE ReAdd(_, _, _)
ReAdd(rec, i, acc) ==
    IF i > Len(rec) THEN acc
    ELSE LET nd == rec[i]
             tk == task[nd.h]
         IN  ReAdd(rec, i + 1,
                   IF ~tk.removed
                   THEN [acc EXCEPT !.tasks = Emplace(@, nd),
                                    !.map = Put(@, tk.id, Iter("tasks", nd))]
                   ELSE acc)

\* remove from tasks_map
RECURSIVE Cleanup(_, _, _)
Cleanup(nonrec, i, map) ==
    IF i > Len(nonrec) THEN map
    ELSE Cleanup(nonrec, i + 1, Erase(map, task[nonrec[i]].id))

manage_tasks ==
    LET n == Due(now)
    IN  IF n = 0
        THEN [tasks |-> tasks, hold |-> completed_interval_tasks,
              map |-> tasks_map, execs |-> execs, log |-> <<>>]
        ELSE LET f == Fire(1, n, [hold |-> completed_interval_tasks, map |-> tasks_map,
                                  execs |-> execs, rec |-> <<>>, nonrec |-> <<>>,
                                  log |-> <<>>])
                 r == ReAdd(f.rec, 1, [tasks |-> SubSeq(tasks, n + 1, Len(tasks)),
                                       map |-> f.map])
             IN  [tasks |-> r.tasks, hold |-> f.hold,
                  map |-> Cleanup(f.nonrec, 1, r.map), execs |-> f.execs,
                  log |-> f.log]

\* ------------------------------------------------------ the dispatcher
\* tasks.empty() / (*tasks.begin()).first, read without the mutex
FirstTime == IF tasks = <<>> THEN Forever ELSE tasks[1].time

\* while (!done) { if (tasks.empty()) ... else time_of_first_task = ... }
DispCheck ==
    /\ Idle
    /\ pc = "loop"
    /\ IF done
       THEN pc' = "exit" /\ wake' = wake
       ELSE pc' = "sleep" /\ wake' = FirstTime
    /\ ret' = None
    /\ UNCHANGED <<now, lockvars, hist, task, tasks, completed_interval_tasks, tasks_map, lock,
                   interrupted, done, execs>>

\* The same read while a caller's in() is inside tasks.emplace: the dispatcher
\* takes no mutex for it, so the two run at once and the read may see an empty
\* store or any first key.  The insertion completes, interrupt() included.
Garbage == {Forever} \cup (0..(MaxTime + 1))
DispCheckRace(id, d) ==
    /\ pc = "loop"
    /\ ~done
    /\ Caller
    /\ ~Exists(id)
    /\ add_task(id, now + d, NewTask(id, "in", 0))
    /\ pc' = "sleep"
    /\ wake' \in Garbage
    /\ hist' = Registered(hist, id)
    /\ UNCHANGED <<now, lockvars, completed_interval_tasks, lock, done, execs>>

\* sleeper.sleep() / sleeper.sleep_until(time) returns and clears the flag
SleepOver == interrupted \/ (wake # Forever /\ now >= wake)
DispWake ==
    /\ Idle
    /\ pc = "sleep"
    /\ SleepOver
    /\ interrupted' = FALSE
    /\ wake' = Forever
    /\ pc' = "manage"
    /\ ret' = None
    /\ UNCHANGED <<now, lockvars, hist, task, tasks, completed_interval_tasks, tasks_map, lock,
                   done, execs>>

\* manage_tasks(): std::lock_guard<std::mutex> l(lock)
DispLock ==
    /\ Idle
    /\ pc = "manage"
    /\ lock = "free"
    /\ lock' = "disp"
    /\ pc' = "sweep"
    /\ ret' = None
    /\ hist' = [hist EXCEPT !.late = done]
    /\ UNCHANGED <<now, lockvars, task, tasks, completed_interval_tasks, tasks_map,
                   interrupted, done, wake, execs>>

\* The three steps above with the sleep left open: the dispatcher arrives at
\* manage_tasks() at any moment, its sleep having returned and cleared the flag.
\* Every arrival DispCheck, DispWake and DispLock allow is one of these.
DispArrive ==
    /\ Idle
    /\ pc = "loop"
    /\ ~done
    /\ lock = "free"
    /\ lock' = "disp"
    /\ interrupted' = FALSE
    /\ pc' = "sweep"
    /\ ret' = None
    /\ UNCHANGED <<now, lockvars, hist, task, tasks, completed_interval_tasks, tasks_map,
                   done, wake, execs>>

\* the body of manage_tasks(), up to the release of the mutex
DispSweep ==
    /\ Idle
    /\ pc = "sweep"
    /\ LET s == manage_tasks
       IN  /\ tasks' = s.tasks
           /\ completed_interval_tasks' = s.hold
           /\ tasks_map' = s.map
           /\ execs' = s.execs
           /\ task' = Release(task, s.tasks, s.hold, s.execs)
    /\ lock' = "free"
    /\ pc' = "loop"
    /\ ret' = None
    /\ hist' = Forget(Swept(hist, task, {tasks[i].h : i \in 1..Due(now)}), task')
    /\ UNCHANGED <<now, lockvars, interrupted, done, wake>>

\* ------------------------------------------------------ the worker pool
\* a throw of task->f() taken for the end of the scheduler
ExecFinish_fatal(e, throws) ==
    /\ Idle
    /\ e.pc = "run"
    /\ IF IsInterval(task[e.h]) /\ ~throws
       THEN /\ lock = "free"
            /\ LET nd == Node(get_new_time(task[e.h], now), e.h)
               IN  /\ tasks' = Emplace(tasks, nd)
                   /\ tasks_map' = Put(tasks_map, task[e.h].id, Iter("tasks", nd))
            /\ interrupted' = TRUE
            /\ execs' = Push(Pop(execs, e), [e EXCEPT !.pc = "erase"])
            /\ task' = task
       ELSE /\ execs' = Pop(execs, e)
            /\ task' = Release(task, tasks, completed_interval_tasks, execs')
            /\ UNCHANGED <<tasks, tasks_map, interrupted>>
    /\ ret' = None
    /\ hist' = Forget(hist, task')
    /\ done' = (done \/ throws)
    /\ UNCHANGED <<now, lockvars, completed_interval_tasks, lock, pc, wake>>

\* task->f() returns or throws.  A throw ends the job, as does the return of a
\* job that is not the interval wrapper.  The wrapper goes on with
\* add_task(task->get_new_time(), task): the unchecked insertion, under the mutex.
ExecFinish(e, throws) ==
    /\ Idle
    /\ e.pc = "run"
    /\ IF IsInterval(task[e.h]) /\ ~throws
       THEN /\ lock = "free"
            /\ LET nd == Node(get_new_time(task[e.h], now), e.h)
               IN  /\ tasks' = Emplace(tasks, nd)
                   /\ tasks_map' = Put(tasks_map, task[e.h].id, Iter("tasks", nd))
            /\ interrupted' = TRUE
            /\ execs' = Push(Pop(execs, e), [e EXCEPT !.pc = "erase"])
            /\ task' = task
       ELSE /\ execs' = Pop(execs, e)
            /\ task' = Release(task, tasks, completed_interval_tasks, execs')
            /\ UNCHANGED <<tasks, tasks_map, interrupted>>
    /\ ret' = None
    /\ hist' = Forget(hist, task')
    /\ UNCHANGED <<now, lockvars, completed_interval_tasks, lock, done, pc, wake>>

\* completed_interval_tasks.erase(inserted_task), without the mutex.  While the
\* dispatcher is inside manage_tasks the erase races with its insertions into
\* the same multimap, and the node may stay linked.
WorkerErase(e) ==
    /\ Idle
    /\ e.pc = "erase"
    /\ LET nd == Node(e.key, e.h)
       IN  \/ completed_interval_tasks' = completed_interval_tasks \ {nd}
           \/ /\ lock = "disp"
              /\ manage_tasks.hold # completed_interval_tasks
              /\ completed_interval_tasks' = completed_interval_tasks
    /\ execs' = Pop(execs, e)
    /\ task' = Release(task, tasks, completed_interval_tasks', execs')
    /\ ret' = None
    /\ hist' = Forget(hist, task')
    /\ UNCHANGED <<now, lockvars, tasks, tasks_map, lock, interrupted, done, pc, wake>>

\* ------------------------------------------------------------------ Next
Calls ==
    \/ \E id \in Ids, d \in Durations : In(id, d) \/ Every(id, d) \/ Interval(id, d)
    \/ \E id \in Ids, tp \in AtTimes : At(id, tp)
    \/ \E id \in Ids, e \in CronExprs : Cron(id, e)
    \/ \E id \in Ids : remove_task(id) \/ disable_task(id) \/ enable_task(id)
    \/ get_tasks_list
    \/ Return

Workers ==
    \/ \E e \in DOMAIN execs, throws \in BOOLEAN : ExecFinish(e, throws)
    \/ \E e \in DOMAIN execs : WorkerErase(e)

\* the scheduler while it is alive, a sweep starting at any moment
Next ==
    \/ Tick
    \/ Calls
    \/ DispArrive
    \/ DispSweep
    \/ Workers

Spec == Init /\ [][Next]_vars

\* the scheduler with the dispatcher loop as coded, and its destructor
Dispatcher ==
    \/ DispCheck
    \/ DispWake
    \/ DispLock
    \/ DispSweep

LoopNext ==
    \/ Tick
    \/ Calls
    \/ \E id \in Ids, d \in Durations : DispCheckRace(id, d)
    \/ Shutdown
    \/ Dispatcher
    \/ Workers

LoopSpec == Init /\ [][LoopNext]_vars

\* The dispatcher loop as coded, never shut down, under callers that register
\* one-shot and every tasks and remove them.  The dispatcher thread is
\* scheduled fairly: each of its steps is taken if it can be taken again and
\* again, and so is the hand-back of a call's result.
FairNext ==
    \/ Tick
    \/ \E id \in Ids, d \in Durations : In(id, d) \/ Every(id, d) \/ DispCheckRace(id, d)
    \/ \E id \in Ids : remove_task(id)
    \/ Return
    \/ Dispatcher
    \/ \E e \in DOMAIN execs, throws \in BOOLEAN : ExecFinish(e, throws)

FairSpec ==
    /\ Init
    /\ [][FairNext]_vars
    /\ SF_vars(DispCheck)
    /\ SF_vars(DispWake)
    /\ SF_vars(DispLock)
    /\ SF_vars(DispSweep)
    /\ WF_vars(Return)

\* The same callers and dispatcher loop with the destructor: the scheduler is
\* destroyed at any moment.
StopNext ==
    \/ FairNext
    \/ Shutdown

StopSpec == Init /\ [][StopNext]_vars

\* Two ids, for what a sweep does with several tasks due at once: callers
\* register one-shot, every, interval and cron tasks under either id and
\* disable them, a sweep starts at any moment.
TwoIds == {"a", "b"}
SweepNext ==
    \/ Tick
    \/ \E id \in TwoIds, d \in Durations : In(id, d) \/ Every(id, d) \/ Interval(id, d)
    \/ \E id \in TwoIds, time \in AtStrings : AtString(id, time)
    \/ \E id \in TwoIds, e \in CronExprs : Cron(id, e)
    \/ \E id \in TwoIds : disable_task(id)
    \/ Return
    \/ DispArrive
    \/ DispSweep
    \/ Workers

SweepSpec == Init /\ [][SweepNext]_vars

\* ------------------------------------------- the threads, lock by lock
\* The same calls with each acquisition and release of the two mutexes as a
\* step of its own: `lock` guards the store, the index and the holding
\* multimap, sleeper_m guards `interrupted`.  What a call does to the store
\* under `lock` is in the actions above and is left out here; whether a
\* registration finds its id, whether the store is empty and whether a sweep
\* submits an interval wrapper are open choices.
datavars == <<task, tasks, completed_interval_tasks, tasks_map, execs, ret, hist>>
At2(f, t, v) == [f EXCEPT ![t] = v]

\* wait_until / wait_for have reached their deadline
Timeout == wake # Forever /\ now >= wake

\* the thread calling into the sleeper picks one of its three sleeps
sleep ==
    /\ pc = "call"
    /\ pc' = "enter"
    /\ wake' = Forever
    /\ UNCHANGED <<now, lock, interrupted, done, lockvars, datavars>>

sleep_for(d) ==
    /\ pc = "call"
    /\ pc' = "enter"
    /\ wake' = now + d
    /\ UNCHANGED <<now, lock, interrupted, done, lockvars, datavars>>

sleep_until(t) ==
    /\ pc = "call"
    /\ pc' = "enter"
    /\ wake' = t
    /\ UNCHANGED <<now, lock, interrupted, done, lockvars, datavars>>

\* std::unique_lock<std::mutex> ul(m)
SleepLock ==
    /\ pc = "enter"
    /\ sleeper_m = "free"
    /\ sleeper_m' = "disp"
    /\ pc' = "pred"
    /\ UNCHANGED <<now, lock, interrupted, done, wake, notified, tpc, datavars>>

\* cv.wait entered with m kept locked
SleepWait_holding ==
    /\ pc = "pred"
    /\ IF interrupted \/ Timeout
       THEN pc' = "clear" /\ UNCHANGED <<sleeper_m, notified>>
       ELSE pc' = "wait" /\ sleeper_m' = sleeper_m /\ notified' = FALSE
    /\ UNCHANGED <<now, lock, interrupted, done, wake, tpc, datavars>>

\* cv.wait(ul, pred): with m held, the predicate is read; the wait is over if
\* it holds or the deadline has passed, else the thread releases m and blocks
SleepWait ==
    /\ pc = "pred"
    /\ IF interrupted \/ Timeout
       THEN pc' = "clear" /\ UNCHANGED <<sleeper_m, notified>>
       ELSE pc' = "wait" /\ sleeper_m' = "free" /\ notified' = FALSE
    /\ UNCHANGED <<now, lock, interrupted, done, wake, tpc, datavars>>

\* a spurious wake-up taken for the end of the wait: the predicate is not read
SleepNotified_spurious ==
    /\ pc = "wait"
    /\ sleeper_m = "free"
    /\ sleeper_m' = "disp"
    /\ pc' = "clear"
    /\ UNCHANGED <<now, lock, interrupted, done, wake, notified, tpc, datavars>>

\* the blocked thread is woken by notify_one or by its deadline and takes m
\* again to read the predicate
SleepNotified ==
    /\ pc = "wait"
    /\ notified \/ Timeout
    /\ sleeper_m = "free"
    /\ sleeper_m' = "disp"
    /\ pc' = "pred"
    /\ UNCHANGED <<now, lock, interrupted, done, wake, notified, tpc, datavars>>

\* the flag left set when the sleep returns
SleepClear_keep ==
    /\ pc = "clear"
    /\ interrupted' = interrupted
    /\ notified' = FALSE
    /\ sleeper_m' = "free"
    /\ pc' = "manage"
    /\ UNCHANGED <<now, lock, done, wake, tpc, datavars>>

\* interrupted = false; the sleep returns and ul releases m
SleepClear ==
    /\ pc = "clear"
    /\ interrupted' = FALSE
    /\ notified' = FALSE
    /\ sleeper_m' = "free"
    /\ pc' = "manage"
    /\ UNCHANGED <<now, lock, done, wake, tpc, datavars>>

\* interrupt(): std::lock_guard<std::mutex> lg(m)
InterruptLock(t) ==
    /\ tpc[t] = "interrupt"
    /\ sleeper_m = "free"
    /\ sleeper_m' = t
    /\ tpc' = At2(tpc, t, "in_interrupt")
    /\ UNCHANGED <<now, lock, interrupted, done, pc, wake, notified, datavars>>

\* interrupt() flipping the flag: a second call takes the first one back
interrupt_toggle(t) ==
    /\ tpc[t] = "in_interrupt"
    /\ interrupted' = ~interrupted
    /\ notified' = (notified \/ pc = "wait")
    /\ sleeper_m' = "free"
    /\ tpc' = At2(tpc, t, IF t = Main THEN "over"
                          ELSE IF lock = t THEN "leave" ELSE "idle")
    /\ UNCHANGED <<now, lock, done, pc, wake, datavars>>

\* interrupt() without cv.notify_one()
interrupt_unnotified(t) ==
    /\ tpc[t] = "in_interrupt"
    /\ interrupted' = TRUE
    /\ notified' = notified
    /\ sleeper_m' = "free"
    /\ tpc' = At2(tpc, t, IF t = Main THEN "over"
                          ELSE IF lock = t THEN "leave" ELSE "idle")
    /\ UNCHANGED <<now, lock, done, pc, wake, datavars>>

\* interrupted = true; cv.notify_one(); lg releases m.  The notification
\* reaches the thread blocked in cv.wait, if there is one.  The caller goes on:
\* add_task to the end of its scope, the destructor to its end.
interrupt(t) ==
    /\ tpc[t] = "in_interrupt"
    /\ interrupted' = TRUE
    /\ notified' = (notified \/ pc = "wait")
    /\ sleeper_m' = "free"
    /\ tpc' = At2(tpc, t, IF t = Main THEN "over"
                          ELSE IF lock = t THEN "leave" ELSE "idle")
    /\ UNCHANGED <<now, lock, done, pc, wake, datavars>>

\* a caller thread enters remove_task / disable_task / enable_task ("control")
\* or a registration's add_task(task_id, time, t) ("register")
Call(t, op) ==
    /\ tpc[t] = "idle"
    /\ ~done
    /\ tpc' = At2(tpc, t, op)
    /\ UNCHANGED <<now, lock, interrupted, done, pc, wake, sleeper_m, notified, datavars>>

\* the wrapper taking the mutex before task->f() instead of after it
TakeLock_early(t) ==
    /\ tpc[t] \in {"control", "register", "add", "run"}
    /\ lock = "free"
    /\ lock' = t
    /\ tpc' = At2(tpc, t, CASE tpc[t] = "control" -> "in_control"
                            [] tpc[t] = "register" -> "in_register"
                            [] tpc[t] = "add" -> "in_add"
                            [] tpc[t] = "run" -> "run")
    /\ UNCHANGED <<now, interrupted, done, pc, wake, sleeper_m, notified, datavars>>

\* std::lock_guard<std::mutex> l(lock) of a caller or of the wrapper's add_task
TakeLock(t) ==
    /\ tpc[t] \in {"control", "register", "add"}
    /\ lock = "free"
    /\ lock' = t
    /\ tpc' = At2(tpc, t, CASE tpc[t] = "control" -> "in_control"
                            [] tpc[t] = "register" -> "in_register"
                            [] tpc[t] = "add" -> "in_add")
    /\ UNCHANGED <<now, interrupted, done, pc, wake, sleeper_m, notified, datavars>>

\* the body of remove_task / disable_task / enable_task, to its return
ControlBody(t) ==
    /\ tpc[t] = "in_control"
    /\ lock' = "free"
    /\ tpc' = At2(tpc, t, "idle")
    /\ UNCHANGED <<now, interrupted, done, pc, wake, sleeper_m, notified, datavars>>

\* the body of add_task(task_id, time, t): the id is found and the call throws,
\* or the task is inserted and sleeper.interrupt() is called under `lock`
RegisterBody(t, found) ==
    /\ tpc[t] = "in_register"
    /\ IF found
       THEN lock' = "free" /\ tpc' = At2(tpc, t, "idle")
       ELSE lock' = lock /\ tpc' = At2(tpc, t, "interrupt")
    /\ UNCHANGED <<now, interrupted, done, pc, wake, sleeper_m, notified, datavars>>

\* the end of add_task: l releases `lock`; the wrapper goes on to its erase
Leave(t) ==
    /\ tpc[t] = "leave"
    /\ lock' = "free"
    /\ tpc' = At2(tpc, t, IF t \in WorkerThreads THEN "erase" ELSE "idle")
    /\ UNCHANGED <<now, interrupted, done, pc, wake, sleeper_m, notified, datavars>>

\* the interval wrapper on its pool thread: task->f() returns (or throws, which
\* ends the job), add_task(time, t) inserts under `lock` and interrupts, then
\* completed_interval_tasks.erase(inserted_task)
WrapperRun(t, throws) ==
    /\ tpc[t] = "run"
    /\ tpc' = At2(tpc, t, IF throws THEN "idle" ELSE "add")
    /\ UNCHANGED <<now, lock, interrupted, done, pc, wake, sleeper_m, notified, datavars>>

WrapperAdd(t) ==
    /\ tpc[t] = "in_add"
    /\ tpc' = At2(tpc, t, "interrupt")
    /\ UNCHANGED <<now, lock, interrupted, done, pc, wake, sleeper_m, notified, datavars>>

WrapperErase(t) ==
    /\ tpc[t] = "erase"
    /\ tpc' = At2(tpc, t, "idle")
    /\ UNCHANGED <<now, lock, interrupted, done, pc, wake, sleeper_m, notified, datavars>>

\* ~Scheduler(): done = true; then sleeper.interrupt()
SetDone ==
    /\ tpc[Main] = "idle"
    /\ ~done
    /\ done' = TRUE
    /\ tpc' = At2(tpc, Main, "interrupt")
    /\ UNCHANGED <<now, lock, interrupted, pc, wake, sleeper_m, notified, datavars>>

\* while (!done): the dispatcher leaves the loop or goes to sleep
LoopCheck ==
    /\ pc = "loop"
    /\ pc' = IF done THEN "exit" ELSE "call"
    /\ UNCHANGED <<now, lock, interrupted, done, wake, lockvars, datavars>>

\* the body of manage_tasks() under `lock`: the sweep may submit the wrapper of
\* an interval task to a pool thread; the mutex is released at the end
SweepBody(push) ==
    /\ pc = "sweep"
    /\ lock = "disp"
    /\ tpc' = IF push /\ \E t \in WorkerThreads : tpc[t] = "idle"
              THEN At2(tpc, CHOOSE t \in WorkerThreads : tpc[t] = "idle", "run")
              ELSE tpc
    /\ lock' = "free"
    /\ pc' = "loop"
    /\ UNCHANGED <<now, interrupted, done, wake, sleeper_m, notified, datavars>>

Sleeper ==
    \/ SleepLock
    \/ SleepWait
    \/ SleepNotified
    \/ SleepClear

Interrupts ==
    \/ \E t \in Threads : InterruptLock(t)
    \/ \E t \in Threads : interrupt(t)

LockNext ==
    \/ Tick
    \/ \E t \in CallerThreads, op \in {"control", "register"} : Call(t, op)
    \/ \E t \in CallerThreads \cup WorkerThreads : TakeLock(t)
    \/ \E t \in CallerThreads : ControlBody(t)
    \/ \E t \in CallerThreads, found \in BOOLEAN : RegisterBody(t, found)
    \/ \E t \in CallerThreads \cup WorkerThreads : Leave(t)
    \/ \E t \in WorkerThreads, throws \in BOOLEAN : WrapperRun(t, throws)
    \/ \E t \in WorkerThreads : WrapperAdd(t)
    \/ \E t \in WorkerThreads : WrapperErase(t)
    \/ SetDone
    \/ Interrupts
    \/ LoopCheck
    \/ sleep
    \/ \E t \in AtTimes : sleep_until(t)
    \/ Sleeper
    \/ DispLock
    \/ \E push \in BOOLEAN : SweepBody(push)

\* the steps of one caller or worker thread inside a call, of the destroying
\* thread inside the destructor, and of the dispatcher
ThreadStep(t) ==
    \/ TakeLock(t)
    \/ ControlBody(t)
    \/ \E found \in BOOLEAN : RegisterBody(t, found)
    \/ WrapperAdd(t)
    \/ InterruptLock(t)
    \/ interrupt(t)
    \/ Leave(t)
    \/ WrapperErase(t)

DispStep ==
    \/ LoopCheck
    \/ sleep
    \/ \E t \in AtTimes : sleep_until(t)
    \/ Sleeper
    \/ DispLock
    \/ \E push \in BOOLEAN : SweepBody(push)

\* Every thread is scheduled, and a thread that finds a mutex free again and
\* again gets it: a thread whose next step can be taken again and again takes
\* it.  The action of an interval task need not return.
LockFair ==
    /\ \A t \in Threads : SF_vars(ThreadStep(t))
    /\ SF_vars(DispStep)

LockSpec == Init /\ [][LockNext]_vars /\ LockFair

\* An InterruptableSleep on its own, as the test uses it: one thread calls
\* sleep(), sleep_for() and sleep_until() one after the other, other threads
\* call interrupt().
SleeperInit ==
    /\ now = 0
    /\ task = [h \in Slots |-> Free]
    /\ tasks = <<>>
    /\ completed_interval_tasks = {}
    /\ tasks_map = <<>>
    /\ lock = "free"
    /\ interrupted = FALSE
    /\ done = FALSE
    /\ pc = "call"
    /\ wake = Forever
    /\ execs = <<>>
    /\ ret = None
    /\ sleeper_m = "free"
    /\ notified = FALSE
    /\ tpc = [t \in Threads |-> "idle"]
    /\ hist = NoHist

\* the sleep has returned to the thread, which goes on to its next sleep
SleepReturned ==
    /\ pc = "manage"
    /\ pc' = "call"
    /\ UNCHANGED <<now, lock, interrupted, done, wake, lockvars, datavars>>

\* a thread calls interrupt()
CallInterrupt(t) ==
    /\ tpc[t] = "idle"
    /\ tpc' = At2(tpc, t, "interrupt")
    /\ UNCHANGED <<now, lock, interrupted, done, pc, wake, sleeper_m, notified, datavars>>

SleeperNext ==
    \/ Tick
    \/ sleep
    \/ \E d \in Durations : sleep_for(d)
    \/ \E t \in AtTimes : sleep_until(t)
    \/ Sleeper
    \/ SleepReturned
    \/ \E t \in CallerThreads : CallInterrupt(t)
    \/ \E t \in CallerThreads : InterruptLock(t)
    \/ \E t \in CallerThreads : interrupt(t)

SleeperSpec == SleeperInit /\ [][SleeperNext]_vars

\* the same with the threads scheduled: the sleeping thread is granted m when
\* it is free again and again, a thread inside interrupt() leaves it
SleeperFair ==
    /\ SF_vars(Sleeper)
    /\ \A t \in CallerThreads : WF_vars(interrupt(t))
SleeperFairSpec == SleeperSpec /\ SleeperFair

\* ------------------------------------------------------------ the claims
\* the executions of task object h whose action has not returned yet
RECURSIVE Sum(_, _)
Sum(ex, S) ==
    IF S = {} THEN 0
    ELSE LET e == CHOOSE x \in S : TRUE IN ex[e] + Sum(ex, S \ {e})
Running(ex, h) == Sum(ex, {e \in DOMAIN ex : e.h = h /\ e.pc = "run"})
RunningId(ex, id) ==
    Sum(ex, {e \in DOMAIN ex : /\ task[e.h].kind = "interval"
                               /\ task[e.h].id = id
                               /\ e.pc = "run"})

\* a step of the dispatcher that is the body of manage_tasks
Sweeping == pc = "sweep" /\ pc' = "loop"
\* the nodes of the time-ordered store the sweep in progress triggers
Triggered == {tasks[i] : i \in 1..Due(now)}

\* C1 as stated: for every interval task id, at most one execution of that
\* id's action is running at any moment.
C1_OnePerId ==
    \A h \in Slots : task[h].kind = "interval" => RunningId(execs, task[h].id) <= 1

\* C1 as amended: for every interval task as registered (one Task object), at
\* most one execution of its action is running at any moment; a task registered
\* under the id of a removed task that is still executing is another task.
C1_OnePerTask ==
    \A h \in Slots : task[h].kind = "interval" => Running(execs, h) <= 1

\* an interval task runs for the second time while the wrapper of its previous
\* execution has still to leave the holding multimap
C1_Witness ==
    \E e1, e2 \in DOMAIN execs :
        /\ e1.h = e2.h
        /\ task[e1.h].kind = "interval"
        /\ e1.pc = "erase"
        /\ e2.pc = "run"

\* C2: remove_task(id) returning true marks the task the index maps id to as
\* removed; a task marked removed stays marked for as long as it lives, and no
\* step submits an execution of it: whether it was removed before its due
\* instant, between that instant and the sweep, or while its interval
\* execution ran.
C2_RemovedNeverSubmitted ==
    [][/\ \A id \in Ids :
            (remove_task(id) /\ ret'.out = "true" /\ Valid(tasks_map[id])) =>
                task'[tasks_map[id].h].removed
       /\ \A h \in Slots :
            task[h].removed =>
                /\ task'[h] = Free \/ (task'[h].removed /\ task'[h].id = task[h].id)
                /\ Running(execs', h) <= Running(execs, h)]_vars

\* the dispatcher is inside manage_tasks and is about to pass over an interval
\* task that was removed while it ran and that its wrapper put back since
C2_Witness ==
    /\ lock = "disp"
    /\ \E nd \in Triggered :
          /\ task[nd.h].kind = "interval"
          /\ task[nd.h].removed
          /\ task[nd.h].enabled
          /\ nd.time > 0

\* a step that is a registration call for id, and one whose arguments are valid
Register(id) ==
    \/ \E d \in Durations : In(id, d) \/ Every(id, d) \/ Interval(id, d)
    \/ \E tp \in AtTimes : At(id, tp)
    \/ \E e \in CronExprs : Cron(id, e)
RegisterValid(id) ==
    \/ \E d \in Durations : In(id, d) \/ Every(id, d) \/ Interval(id, d)
    \/ \E tp \in AtTimes : At(id, tp)
    \/ \E e \in CronExprs : CronValid(e) /\ Cron(id, e)
Present(id) == id \in DOMAIN tasks_map
Untouched == UNCHANGED <<task, tasks, tasks_map, completed_interval_tasks, interrupted>>

\* C3 as stated: a registration call whose id is in the index fails with
\* TaskAlreadyExists and changes neither the store, the index, the holding
\* multimap, any flag nor the sleeper's flag.
C3_DuplicateRejected ==
    [][\A id \in Ids :
          (Present(id) /\ Register(id)) =>
              (ret'.out = "TaskAlreadyExists" /\ Untouched)]_vars

\* C3 as amended: a registration call whose id is in the index fails and
\* changes nothing; it fails with TaskAlreadyExists when its own arguments are
\* valid, and with the error of its arguments (BadCronExpression) otherwise,
\* which is raised before the index is looked up.
C3_DuplicateFails ==
    [][\A id \in Ids :
          /\ (Present(id) /\ Register(id)) =>
                (ret'.out \in {"TaskAlreadyExists", "BadCronExpression"} /\ Untouched)
          /\ (Present(id) /\ RegisterValid(id)) => ret'.out = "TaskAlreadyExists"]_vars

\* a registration has just been rejected while the sleeper's flag was clear
C3_Witness ==
    /\ ret.out = "TaskAlreadyExists"
    /\ ~interrupted
    /\ Present("a")

\* the nodes of the store whose task carries id
CountId(m, tk, id) == Cardinality({i \in 1..Len(m) : tk[m[i].h].id = id})

\* C4 as stated: of the registrations of an id that is not in the index, with
\* no remove and no sweep in between, the first succeeds and the others fail
\* with TaskAlreadyExists, and the store then holds exactly one task with that id.
C4_ExactlyOneInStore ==
    [][\A id \in Ids :
          /\ (~Present(id) /\ RegisterValid(id)) =>
                (ret'.out = "ok" /\ CountId(tasks', task', id) = 1)
          /\ (Present(id) /\ RegisterValid(id)) =>
                (ret'.out = "TaskAlreadyExists" /\ CountId(tasks', task', id) = 1)
          /\ (Present(id) /\ ~remove_task(id) /\ ~Sweeping) => Present(id)']_vars

\* C4 as amended: the first of them succeeds and adds exactly one task with
\* that id to the store, which the index then maps the id to; the others fail
\* with TaskAlreadyExists and add nothing.  Tasks with that id that were
\* removed earlier and still wait in the store to be dropped stay beside it.
C4_ExactlyOneAdded ==
    [][\A id \in Ids :
          /\ (~Present(id) /\ RegisterValid(id)) =>
                /\ ret'.out = "ok"
                /\ Present(id)'
                /\ CountId(tasks', task', id) = CountId(tasks, task, id) + 1
                /\ Len(tasks') = Len(tasks) + 1
                /\ tasks_map'[id].c = "tasks"
                /\ \E i \in 1..Len(tasks') :
                      /\ tasks'[i] = Node(tasks_map'[id].time, tasks_map'[id].h)
                      /\ task[tasks'[i].h] = Free
                      /\ task'[tasks'[i].h].id = id
                      /\ ~task'[tasks'[i].h].removed
          /\ (Present(id) /\ RegisterValid(id)) =>
                (ret'.out = "TaskAlreadyExists" /\ UNCHANGED <<task, tasks, tasks_map>>)
          /\ (Present(id) /\ ~remove_task(id) /\ ~Sweeping) => Present(id)']_vars

\* the second registration has just failed, the store holding the task of the
\* first beside a removed task of the same id
C4_Witness ==
    /\ ret.out = "TaskAlreadyExists"
    /\ CountId(tasks, task, "a") = 2
    /\ \E i \in 1..Len(tasks) : task[tasks[i].h].removed

\* C5: a one-shot task is submitted only by a sweep that finds it triggered
\* (its due instant at or before now), that sweep takes it out of the store
\* and submits it exactly once if it is enabled and not removed (not at all
\* otherwise), and it never comes back into the store.
C5_OneShot ==
    [][\A h \in Slots :
          task[h].kind \in {"in", "at"} =>
              /\ Running(execs', h) > Running(execs, h) =>
                    (Sweeping /\ \E nd \in Triggered : nd.h = h /\ nd.time <= now)
              /\ (Sweeping /\ \E nd \in Triggered : nd.h = h) =>
                    /\ ~InTasks(h)'
                    /\ Running(execs', h) = Running(execs, h)
                          + (IF task[h].enabled /\ ~task[h].removed THEN 1 ELSE 0)
              /\ ~InTasks(h) => ~InTasks(h)']_vars

\* a one-shot task is executing, out of the store, after its due instant
C5_Witness ==
    \E e \in DOMAIN execs :
        /\ e.pc = "run"
        /\ task[e.h].kind \in {"in", "at"}
        /\ ~InTasks(e.h)
        /\ now > 0

\* C6: under FairSpec every node of the time-ordered store whose due instant
\* has passed is eventually swept out of the store, whatever the dispatcher was
\* doing when the node was inserted: sleeping with no deadline, sleeping until
\* a later instant, or reading the store while the insertion ran.
Stored(nd) == \E i \in 1..Len(tasks) : tasks[i] = nd
C6_EventuallySwept ==
    \A t \in 0..MaxTime, h \in Slots :
        (Stored(Node(t, h)) /\ t <= now) ~> ~Stored(Node(t, h))

\* the dispatcher sleeps toward a later instant, or with no deadline after a
\* read that missed the store, while a node of the store is already due
C6_Witness ==
    /\ pc = "sleep"
    /\ tasks # <<>>
    /\ tasks[1].time <= now
    /\ wake = Forever \/ wake > tasks[1].time

\* C7: a sweep that finds an enabled, not removed every task triggered submits
\* one more execution of it, however many are still running, and puts it back
\* into the store for its next tick.  (C7_Witness: two executions of one every
\* task running at the same time.)
C7_EveryAlwaysSubmitted ==
    [][\A h \in Slots :
          ( /\ task[h].kind = "every"
            /\ task[h].enabled /\ ~task[h].removed
            /\ Sweeping
            /\ \E nd \in Triggered : nd.h = h ) =>
              /\ Running(execs', h) = Running(execs, h) + 1
              /\ InTasks(h)']_vars

C7_Witness ==
    \E h \in Slots : task[h].kind = "every" /\ Running(execs, h) >= 2

\* C8 as stated: an every task that is not removed and fires in a sweep is
\* re-inserted at the due instant it fired for plus its period.
C8_FromDueInstant ==
    [][\A h \in Slots :
          (task[h].kind = "every" /\ ~task[h].removed /\ Sweeping) =>
              \A nd \in Triggered :
                  nd.h = h =>
                      \E i \in 1..Len(tasks') :
                          tasks'[i] = Node(nd.time + task[h].time, h)]_vars

\* C8 as amended: it is re-inserted at the instant of the sweep (the clock as
\* read during the sweep) plus its period, so a sweep that runs late moves
\* every later tick by its lateness.
C8_FromSweepInstant ==
    [][\A h \in Slots :
          (task[h].kind = "every" /\ ~task[h].removed /\ Sweeping) =>
              \A nd \in Triggered :
                  nd.h = h =>
                      /\ \E i \in 1..Len(tasks') :
                            tasks'[i] = Node(now + task[h].time, h)
                      /\ \A i \in 1..Len(tasks') :
                            tasks'[i].h = h => tasks'[i].time = now + task[h].time]_vars

\* the dispatcher is inside a sweep that runs after the due instant of an
\* every task it is about to fire
C8_Witness ==
    /\ lock = "disp"
    /\ \E nd \in Triggered :
          /\ task[nd.h].kind = "every"
          /\ ~task[nd.h].removed
          /\ nd.time < now

\* C9: the wrapper of an interval task whose action has returned inserts the
\* task into the store under the instant of that completion plus the period,
\* and while the action of an interval task runs the task is not in the store.
C9_FromCompletion ==
    [][/\ \A e \in DOMAIN execs :
            (task[e.h].kind = "interval" /\ ExecFinish(e, FALSE)) =>
                /\ ~InTasks(e.h)
                /\ \A i \in 1..Len(tasks') :
                      tasks'[i].h = e.h => tasks'[i].time = now + task[e.h].time
                /\ \E i \in 1..Len(tasks') :
                      tasks'[i] = Node(now + task[e.h].time, e.h)
       /\ \A e \in DOMAIN execs' :
            (task'[e.h].kind = "interval" /\ e.pc = "run") => ~InTasks(e.h)']_vars

\* an interval task fired at one instant is back in the store under a later
\* completion instant plus its period
C9_Witness ==
    \E e \in DOMAIN execs :
        /\ e.pc = "erase"
        /\ task[e.h].kind = "interval"
        /\ e.key < now
        /\ \E i \in 1..Len(tasks) : tasks[i] = Node(now + task[e.h].time, e.h)

\* C10: a sweep that finds a disabled, not removed recurring task triggered
\* submits no execution of it and puts it back into the store under a later
\* instant and into the index, the index entry pointing at the new node.
C10_DisabledKeepsTicking ==
    [][\A h \in Slots :
          ( /\ task[h].kind \in {"every", "cron", "interval"}
            /\ ~task[h].enabled /\ ~task[h].removed
            /\ Sweeping
            /\ \E nd \in Triggered : nd.h = h ) =>
              /\ Running(execs', h) = Running(execs, h)
              /\ \E i \in 1..Len(tasks') :
                    /\ tasks'[i].h = h
                    /\ tasks'[i].time > now
                    /\ Present(task[h].id)'
                    /\ tasks_map'[task[h].id] = Iter("tasks", tasks'[i])]_vars

\* C11: a sweep submits at most one execution of a recurring task, and a
\* recurring task that sweeps passed over while it was disabled is submitted
\* exactly once by the first sweep that finds it triggered, enabled and not
\* removed: the ticks it missed are not made up for.
C11_NoCatchUp ==
    [][\A h \in Slots :
          (task[h].kind \in {"every", "cron", "interval"} /\ Sweeping) =>
              /\ Running(execs', h) <= Running(execs, h) + 1
              /\ ( /\ hist.skip[h] = "skipped"
                    /\ task[h].enabled /\ ~task[h].removed
                    /\ \E nd \in Triggered : nd.h = h ) =>
                    Running(execs', h) = Running(execs, h) + 1]_vars

\* a recurring task that was passed over while disabled has been enabled again
\* and submitted by a later sweep, and one execution of it is running
C11_Witness ==
    \E h \in Slots :
        /\ task[h].kind \in {"every", "cron", "interval"}
        /\ hist.skip[h] = "resumed"
        /\ Running(execs, h) = 1

\* the call changes nothing but its own result
NoEffect ==
    UNCHANGED <<task, tasks, tasks_map, completed_interval_tasks, interrupted, execs>>
\* the task the index maps id to, the entry pointing at a node that exists
Target(id) == tasks_map[id].h
Mapped(id) == Present(id) /\ Valid(tasks_map[id]) /\ task[Target(id)].id = id

\* C12: disable_task(id), enable_task(id) and remove_task(id) return true
\* exactly when id is in the index; returning false they change nothing;
\* returning true they set enabled to false, enabled to true, or removed to
\* true on the task id maps to (and nothing else on any task).
C12_ControlCalls ==
    [][\A id \in Ids :
          /\ (~Present(id) /\ (disable_task(id) \/ enable_task(id) \/ remove_task(id))) =>
                (ret'.out = "false" /\ NoEffect)
          /\ (Present(id) /\ disable_task(id)) =>
                /\ ret'.out = "true"
                /\ Mapped(id)
                /\ task' = [task EXCEPT ![Target(id)].enabled = FALSE]
          /\ (Present(id) /\ enable_task(id)) =>
                /\ ret'.out = "true"
                /\ Mapped(id)
                /\ task' = [task EXCEPT ![Target(id)].enabled = TRUE]
          /\ (Present(id) /\ remove_task(id)) =>
                /\ ret'.out = "true"
                /\ Mapped(id)
                /\ task' = [task EXCEPT ![Target(id)].removed = TRUE]]_vars

\* every task object that carries id has been removed (there may be none
\* left), and at least one is left
AllRemoved(id) == \A h \in Slots : task[h].id = id => task[h].removed
Gone(id) == AllRemoved(id) /\ \E h \in Slots : task[h].id = id
Control(id) == disable_task(id) \/ enable_task(id) \/ remove_task(id)

\* C13: remove_task(id) returning true leaves id out of the index, and while
\* the tasks that carry id are all removed ones (in the store as stale nodes,
\* or in flight) id is not in the index: enable_task, disable_task and
\* remove_task return false and get_tasks_list reports no task with that id.
C13_RemovedStaysAbsent ==
    [][\A id \in Ids :
          /\ (remove_task(id) /\ ret'.out = "true") => ~Present(id)'
          /\ Gone(id) =>
                /\ ~Present(id)
                /\ Control(id) => ret'.out = "false"
                /\ get_tasks_list =>
                      \A i \in 1..Len(ret'.list) : ret'.list[i].id # id]_vars

\* C14: a registration of an id whose tasks have all been removed (their
\* stale nodes still in the store, dropped by a sweep, or in flight as
\* interval executions) succeeds.
C14_ReRegisterSucceeds ==
    [][\A id \in Ids : (AllRemoved(id) /\ RegisterValid(id)) => ret'.out = "ok"]_vars

\* the place of an id in the ascending order of the ids
Rank(id) == CHOOSE k \in 1..Len(IdOrder) : IdOrder[k] = id

\* C15: get_tasks_list returns one report for each id of the index and no
\* other, in ascending order of the ids, each with the enabled flag of the task
\* the id maps to, and changes nothing.
C15_ListReports ==
    [][get_tasks_list =>
          /\ NoEffect
          /\ Len(ret'.list) = Cardinality(DOMAIN tasks_map)
          /\ \A i \in 1..Len(ret'.list) :
                LET r == ret'.list[i]
                IN  /\ Present(r.id)
                    /\ Mapped(r.id)
                    /\ r.enabled = task[Target(r.id)].enabled
                    /\ \A j \in 1..Len(ret'.list) :
                          i < j => Rank(r.id) < Rank(ret'.list[j].id)]_vars

\* C16: with the mutex free, every entry of the index points at a node that is
\* in the store or in the holding multimap, whose task carries the entry's id.
C16_IndexLive ==
    lock = "free" => \A id \in DOMAIN tasks_map : Mapped(id)

\* C19: a sweep that begins after the shutdown flag is set submits no
\* execution: the tasks pending in the store at that moment are not dispatched.
C19_NoFiringAfterShutdown ==
    [][(Sweeping /\ hist.late) =>
          \A h \in Slots : Running(execs', h) <= Running(execs, h)]_vars

\* the mutex a thread is about to take ("" if none), and who holds it
Wants(t) ==
    IF t = "disp"
    THEN (CASE pc = "enter" -> "sleeper_m"
            [] pc = "wait" /\ (notified \/ Timeout) -> "sleeper_m"
            [] pc = "manage" -> "lock"
            [] OTHER -> "")
    ELSE (CASE tpc[t] \in {"control", "register", "add"} -> "lock"
            [] tpc[t] = "interrupt" -> "sleeper_m"
            [] OTHER -> "")
Holder(l) == IF l = "lock" THEN lock ELSE sleeper_m
Blocked(t) == Wants(t) # "" /\ Holder(Wants(t)) \notin {"free", t}
\* no set of threads each waits for a mutex held by a thread of the set
NoCycle ==
    \A S \in (SUBSET (Threads \cup {"disp"})) \ {{}} :
        \E t \in S : ~(Blocked(t) /\ Holder(Wants(t)) \in S)

\* C17: under LockSpec no threads wait for each other's mutexes in a cycle,
\* and every call of remove_task, disable_task, enable_task or a registration
\* that a caller thread has entered returns.
C17_DeadlockFree ==
    /\ []NoCycle
    /\ \A t \in CallerThreads : (tpc[t] # "idle") ~> (tpc[t] = "idle")

\* a caller inside add_task holds `lock` and waits for sleeper_m, which the
\* dispatcher holds on its way out of its sleep, while another caller and the
\* wrapper of an interval task wait for `lock`
C17_Witness ==
    /\ \E t \in CallerThreads : lock = t /\ tpc[t] = "interrupt"
    /\ sleeper_m = "disp"
    /\ \E t \in CallerThreads : tpc[t] \in {"control", "register"}
    /\ \E t \in WorkerThreads : tpc[t] = "add"

\* C18: under LockSpec, once the destructor has set the shutdown flag the
\* dispatcher leaves its loop, wherever it was: blocked in sleep(), blocked in
\* sleep_until(), between its check of the flag and its sleep, or in a sweep.
C18_ShutdownExits == done ~> (pc = "exit")

\* the flag is set and the destructor is about to interrupt, while the
\* dispatcher, which found the flag clear, is blocked in sleep() with no deadline
C18_Witness ==
    /\ done
    /\ tpc[Main] = "interrupt"
    /\ pc = "wait"
    /\ wake = Forever
    /\ ~interrupted

\* C20: an interruption stays pending until a sleep takes it; a sleep call
\* that finds it pending does not block, and clears it as it returns; a sleep
\* call that finds none blocks, and leaves its wait only on a notification or
\* at its deadline, and returns only on an interruption or at its deadline.
C20_PendingInterrupt ==
    [][/\ (interrupted /\ ~interrupted') => (pc = "clear" /\ pc' = "manage")
       /\ (pc = "pred" /\ pc' # "pred") =>
             IF interrupted \/ Timeout THEN pc' = "clear" ELSE pc' = "wait"
       /\ (pc = "clear" /\ pc' # "clear") => (pc' = "manage" /\ ~interrupted')
       /\ (pc = "wait" /\ pc' # "wait") => (notified \/ Timeout)]_vars

\* sleep() is about to return on an interruption that was issued while no
\* thread was blocked in the sleeper: the call has not waited
C20_Witness ==
    /\ pc = "clear"
    /\ interrupted
    /\ ~notified
    /\ wake = Forever

\* C21: interrupt() calls that follow one another with no sleep in between
\* count as one: a call that finds an interruption pending leaves it pending
\* and changes nothing else the sleeping thread reads, and the one sleep that
\* takes the interruption returns with none left, so that the sleep after it
\* blocks again.
C21_InterruptsCollapse ==
    [][/\ \A t \in Threads :
            (tpc[t] = "in_interrupt" /\ tpc'[t] # "in_interrupt" /\ interrupted) =>
                /\ interrupted'
                /\ UNCHANGED <<pc, wake>>
                /\ (pc # "wait" => notified' = notified)
       /\ (pc = "clear" /\ pc' = "manage") => ~interrupted'
       /\ (pc = "pred" /\ ~interrupted /\ ~Timeout /\ pc' # "pred") => pc' = "wait"]_vars

\* a second interrupt() is inside the sleeper while the interruption of the
\* first one is still pending, no sleep having been called in between
C21_Witness ==
    /\ interrupted
    /\ pc = "call"
    /\ \E t \in CallerThreads : tpc[t] = "in_interrupt"

\* C22: sleep_for and sleep_until return only at their deadline or on an
\* interruption, sleep only on an interruption; an interrupt() issued while a
\* thread is blocked in one of the three makes that call return.
C22_ReturnsOnlyWhenDue ==
    /\ [][(pc # "clear" /\ pc' = "clear") =>
              (interrupted \/ (wake # Forever /\ now >= wake))]_vars
    /\ [][(pc = "clear" /\ pc' # "clear") => pc' = "manage"]_vars
    /\ (pc = "wait" /\ interrupted) ~> (pc = "manage")

\* sleep() is blocked when interrupt() is issued, and has not returned yet
C22_Witness ==
    /\ pc = "wait"
    /\ wake = Forever
    /\ interrupted
    /\ notified

\* x stands before y in the sequence s
InSeq(s, x) == \E i \in 1..Len(s) : s[i] = x
Before(s, x, y) == \E i, j \in 1..Len(s) : i < j /\ s[i] = x /\ s[j] = y
Runnable(nd) == task[nd.h].enabled /\ ~task[nd.h].removed

\* C23: the store is in ascending order of due instant at every moment, and
\* among entries of equal due instant an entry inserted later stands after
\* the ones that were there; a sweep goes through the entries due in that
\* order and submits those it runs in that order, each of them once.
C23_SweepOrder ==
    [][/\ \A i, j \in 1..Len(tasks') : i < j => tasks'[i].time <= tasks'[j].time
       /\ \A i, j \in 1..Len(tasks') :
            (i < j /\ tasks'[i].time = tasks'[j].time /\ InSeq(tasks, tasks'[j])) =>
                Before(tasks, tasks'[i], tasks'[j])
       /\ Sweeping =>
            LET n == Cardinality({i \in 1..Len(tasks) : tasks[i].time <= now})
                log == manage_tasks.log
            IN  /\ log = SelectSeq(SubSeq(tasks, 1, n), Runnable)
                /\ \A h \in Slots :
                      Running(execs', h) =
                          Running(execs, h) + Cardinality({i \in 1..Len(log) : log[i].h = h})]_vars

\* a sweep has the mutex and finds two tasks of different ids due at the same
\* instant, both to be run
C23_Witness ==
    /\ pc = "sweep"
    /\ \E i, j \in 1..Len(tasks) :
          /\ i < j
          /\ tasks[j].time <= now
          /\ tasks[i].time = tasks[j].time
          /\ task[tasks[i].h].id # task[tasks[j].h].id
          /\ Runnable(tasks[i]) /\ Runnable(tasks[j])

C25_BadInputNoEffect ==
    [][(ret'.out \in {"BadDateFormat", "BadCronExpression"} /\ ret' # ret) =>
          /\ UNCHANGED <<task, tasks, tasks_map, completed_interval_tasks, execs>>
          /\ interrupted' = interrupted
          /\ UNCHANGED <<pc, lock, wake, done>>
          /\ \A id \in TwoIds : id \notin DOMAIN tasks_map => id \notin DOMAIN tasks_map']_vars

\* at() has thrown BadDateFormat for an id that is free, with a task of the
\* other id in the store and the sleeper not interrupted
C25_Witness ==
    /\ ret.out = "BadDateFormat"
    /\ ~interrupted
    /\ tasks # <<>>
    /\ \E id \in TwoIds : id \notin DOMAIN tasks_map

\* C26: an action that throws ends its job and nothing more: the dispatcher
\* is where it was, neither stopped nor kept from the mutex, and the store,
\* the index and the holding multimap are as they were.  The index holds no
\* entry for a one-shot task whose action throws; an every or cron task whose
\* action throws is in the store, unless it has been removed.
C26_ThrowIsLocal ==
    [][\A e \in DOMAIN execs :
          ExecFinish(e, TRUE) =>
              /\ UNCHANGED <<pc, lock, done, wake, interrupted>>
              /\ UNCHANGED <<tasks, tasks_map, completed_interval_tasks>>
              /\ \A x \in DOMAIN execs' : x # e => execs'[x] = execs[x]
              /\ task[e.h].kind \in {"in", "at"} =>
                    \A id \in DOMAIN tasks_map' : tasks_map'[id].h # e.h
              /\ (task[e.h].kind \in {"every", "cron"} /\ ~task[e.h].removed) =>
                    \E i \in 1..Len(tasks') : tasks'[i].h = e.h]_vars

\* the action of an interval task has thrown: its wrapper is gone and has
\* not put the task back; the dispatcher is inside a later sweep, with a task
\* of the other id due and to be run
C26_Witness ==
    /\ pc = "sweep"
    /\ \E h \in Slots :
          /\ task[h] # Free
          /\ task[h].kind = "interval"
          /\ task[h].enabled /\ ~task[h].removed
          /\ InHolding(h) /\ ~InTasks(h)
          /\ \A e \in DOMAIN execs : e.h # h
          /\ \E i \in 1..Len(tasks) :
                tasks[i].time <= now /\ tasks[i].h # h /\ Runnable(tasks[i])

\* C27: the store, the index and the holding multimap change only in steps
\* of the thread that holds the mutex: while the dispatcher holds it from
\* before a step to after it, the step, which is another thread's, changes
\* none of the three.
C27_MutationsLocked ==
    [][(lock = "disp" /\ lock' = "disp") =>
          UNCHANGED <<tasks, tasks_map, completed_interval_tasks>>]_vars

\* C28: a thread that runs the action of a task holds neither the scheduler
\* mutex nor the sleeper's while the action runs.
C28_ActionsRunUnlocked ==
    \A t \in Threads : tpc[t] = "run" => (lock # t /\ sleeper_m # t)

\* an action runs on its pool thread while a caller is inside the scheduler,
\* holding the mutex, and the dispatcher waits for it
C28_Witness ==
    /\ \E t \in WorkerThreads : tpc[t] = "run"
    /\ lock \in CallerThreads
    /\ pc = "manage"

\* C29: the dispatcher reads the store (is it empty, what is its earliest due
\* instant) to choose its sleep only under the mutex, so never while a caller
\* or a wrapper holds the mutex, inside a call that changes the store.
C29_ReadUnderMutex ==
    [][(pc = "call" /\ pc' = "enter") =>
          (lock \notin CallerThreads \cup WorkerThreads)]_vars

\* C30: a sweep submits the tasks of the entries stored under an instant at
\* or before now that are enabled and not removed, and no other; it leaves no
\* such entry in the store; the entries stored under a later instant stay in
\* the store, in the order they were in, with their tasks unchanged; a sweep
\* that finds no entry due changes nothing and submits nothing.
C30_SweepPartition ==
    [][Sweeping =>
          LET n == Cardinality({i \in 1..Len(tasks) : tasks[i].time <= now})
              later == SubSeq(tasks, n + 1, Len(tasks))
          IN  /\ \A h \in Slots :
                    (Running(execs', h) > Running(execs, h)) <=>
                        \E i \in 1..Len(tasks) :
                            tasks[i].time <= now /\ tasks[i].h = h /\ Runnable(tasks[i])
              /\ \A i \in 1..Len(tasks') : tasks'[i].time > now
              /\ \A i \in 1..Len(later) :
                    /\ InSeq(tasks', later[i])
                    /\ task'[later[i].h] = task[later[i].h]
                    /\ \A j \in 1..Len(later) :
                          i < j => Before(tasks', later[i], later[j])
              /\ n = 0 => UNCHANGED <<task, tasks, tasks_map, completed_interval_tasks,
                                      execs>>]_vars

\* a sweep has the mutex and finds one entry due and one stored under a
\* later instant
C30_Witness ==
    /\ pc = "sweep"
    /\ Len(tasks) = 2
    /\ tasks[1].time <= now
    /\ tasks[2].time > now
    /\ Runnable(tasks[1]) /\ Runnable(tasks[2])

\* C31: disable_task(id) and enable_task(id) of an id in the index change the
\* enabled flag of the task id maps to and nothing else: not its other
\* fields, not another task, not the store, the index, the holding multimap
\* or the pool.
C31_FlagOnly ==
    [][\A id \in Ids :
          (Present(id) /\ (disable_task(id) \/ enable_task(id))) =>
              /\ UNCHANGED <<tasks, tasks_map, completed_interval_tasks, execs>>
              /\ \A h \in Slots :
                    IF Mapped(id) /\ h = Target(id)
                    THEN task'[h] = [task[h] EXCEPT !.enabled = task'[h].enabled]
                    ELSE task'[h] = task[h]]_vars

\* C32: remove_task changes neither the store nor the holding multimap nor
\* the pool: it sets removed flags and takes id out of the index.  A sweep
\* that finds the node of a removed task triggered leaves no node of that task
\* in the store, and from then on no step puts the task into the store or
\* makes an index entry for it.
C32_RemoveIsLazy ==
    [][/\ \A id \in Ids :
            remove_task(id) =>
                /\ UNCHANGED <<tasks, completed_interval_tasks, execs>>
                /\ \A h \in Slots : task'[h] = [task[h] EXCEPT !.removed = task'[h].removed]
                /\ \A x \in DOMAIN tasks_map' :
                      x # id /\ x \in DOMAIN tasks_map /\ tasks_map'[x] = tasks_map[x]
       /\ \A h \in Slots :
            /\ (/\ Sweeping
                /\ task[h] # Free /\ task[h].removed
                /\ \E i \in 1..Len(tasks) : tasks[i].h = h /\ tasks[i].time <= now) =>
                  \A i \in 1..Len(tasks') : tasks'[i].h # h
            /\ (hist.drop[h] /\ task'[h] # Free) =>
                  /\ \A i \in 1..Len(tasks') : tasks'[i].h # h
                  /\ \A x \in DOMAIN tasks_map' :
                        tasks_map'[x].h = h =>
                            (x \in DOMAIN tasks_map /\ tasks_map[x] = tasks_map'[x])]_vars

\* a task was removed while its node was in the store, a sweep at its due
\* instant has dropped the node, and the task is still there, owned by its
\* job alone
C32_Witness ==
    \E h \in Slots :
        /\ task[h] # Free
        /\ hist.drop[h]
        /\ task[h].kind = "every"
        /\ ~InTasks(h)
        /\ pc = "loop"

\* C33: the sweep that finds a one-shot task due leaves it out of the store
\* and leaves no index entry for it, and submits it only if it is enabled
\* and not removed; from then on, as long as no task is registered under its
\* id, enable_task(id) returns false.
C33_OneShotDiscarded ==
    [][/\ \A h \in Slots :
            (/\ Sweeping
             /\ task[h] # Free /\ task[h].kind \in {"in", "at"}
             /\ \E i \in 1..Len(tasks) : tasks[i].h = h /\ tasks[i].time <= now) =>
                /\ \A i \in 1..Len(tasks') : tasks'[i].h # h
                /\ \A x \in DOMAIN tasks_map' : tasks_map'[x].h # h
                /\ ~task[h].enabled => Running(execs', h) = 0
       /\ \A h \in Slots :
            (task[h] # Free /\ task[h].kind \in {"in", "at"} /\ ~InTasks(h)) =>
                /\ \A i \in 1..Len(tasks') : tasks'[i].h # h
                /\ Running(execs', h) <= Running(execs, h)
       /\ \A id \in Ids :
            (enable_task(id) /\ id \in hist.shot) => ret'.out = "false"]_vars

\* C34: while the action of an interval task that is not removed runs, the
\* index maps the task's id to the task's node in the holding multimap:
\* get_tasks_list reports the id, enable_task and disable_task return true
\* for it, and a registration under it fails with TaskAlreadyExists.
C34_InFlightIndexed ==
    [][\A e \in DOMAIN execs :
          (e.pc = "run" /\ task[e.h].kind = "interval" /\ ~task[e.h].removed) =>
              LET id == task[e.h].id
              IN  /\ id \in DOMAIN tasks_map
                  /\ tasks_map[id] = Iter("holding", Node(e.key, e.h))
                  /\ get_tasks_list =>
                        \E i \in 1..Len(ret'.list) : ret'.list[i].id = id
                  /\ (enable_task(id) \/ disable_task(id)) => ret'.out = "true"
                  /\ RegisterValid(id) => ret'.out = "TaskAlreadyExists"]_vars

\* C35 as stated: a registration that succeeds and a remove_task, enable_task
\* or disable_task that returns true leave the sleeper's interruption pending.
C35_EveryMutationInterrupts ==
    [][\A id \in Ids :
          /\ (RegisterValid(id) /\ ret'.out = "ok") => interrupted'
          /\ (Control(id) /\ ret'.out = "true") => interrupted']_vars

\* C35 as amended: a registration that succeeds leaves the sleeper's
\* interruption pending; remove_task, enable_task and disable_task leave the
\* sleeper's flag as it was, whatever they return.
C35_OnlyRegistrationInterrupts ==
    [][\A id \in Ids :
          /\ (RegisterValid(id) /\ ret'.out = "ok") => interrupted'
          /\ Control(id) => interrupted' = interrupted]_vars

\* remove_task, enable_task or disable_task has returned true, the store is
\* not empty and no interruption is pending
C35_Witness ==
    /\ ret.out = "true"
    /\ ~interrupted
    /\ tasks # <<>>
    /\ pc = "loop"

\* C36: at(id, string, f) given the time of day 00:00:01 stores the task
\* under instant 1 of today if that is still ahead and under instant 1 of the
\* next day if it has come, in either case later than now; given a date and
\* time it stores the task under that instant, ahead or past, and a task
\* stored under a past instant is due at once.
C36_TimeOfDayRolls ==
    [][\A id \in TwoIds, time \in AtStrings, h \in Slots :
          (AtString(id, time) /\ ret'.out = "ok" /\ task[h] = Free /\ task'[h] # Free) =>
              LET tp == CASE time = "00:00:01" -> (IF now >= 1 THEN 1 + Day ELSE 1)
                          [] time = "1970-01-01 00:00:02" -> 2
                          [] time = "1970/01/01 00:00:00" -> 0
              IN  /\ InSeq(tasks', Node(tp, h))
                  /\ time = "00:00:01" => tp > now
                  /\ (time # "00:00:01" /\ tp <= now) =>
                        \E i \in 1..Len(tasks') :
                            /\ tasks'[i] = Node(tp, h)
                            /\ i <= Cardinality({j \in 1..Len(tasks') : tasks'[j].time <= now})]_vars

\* at() was given a time of day that had passed: the task is in the store
\* under that time of the next day
C36_Witness ==
    /\ ret.out = "ok"
    /\ now >= 1
    /\ \E i \in 1..Len(tasks) :
          /\ task[tasks[i].h].kind = "at"
          /\ tasks[i].time = 1 + Day

\* C37: each report of get_tasks_list is the report of the task its id maps
\* to, and its next-run value is that task's get_new_time() at the instant of
\* the call: now plus the period for an every or interval task, the next
\* instant the cron expression matches after now for a cron task, the zero
\* instant for a one-shot task.
C37_NextRunRecomputed ==
    [][get_tasks_list =>
          \A i \in 1..Len(ret'.list) :
              LET r == ret'.list[i]
              IN  /\ Present(r.id)
                  /\ Mapped(r.id)
                  /\ LET tk == task[Target(r.id)]
                     IN  r.next_run =
                            CASE tk.kind \in {"every", "interval"} -> now + tk.time
                              [] tk.kind = "cron" -> ((now \div 2) + 1) * 2
                              [] tk.kind \in {"in", "at"} -> 0]_vars

\* C38: disable_task and remove_task leave the pool as it is: a job that has
\* been submitted stays in the pool until its action has returned or thrown,
\* whatever the flags of its task, and a sweep submits no job of a task that
\* is disabled or removed.
C38_SubmittedStillRun ==
    [][/\ \A id \in Ids : (disable_task(id) \/ remove_task(id)) => execs' = execs
       /\ \A e \in DOMAIN execs :
            (e.pc = "run" /\ (e \notin DOMAIN execs' \/ execs'[e] < execs[e])) =>
                \E throws \in BOOLEAN : ExecFinish(e, throws)
       /\ Sweeping =>
            \A h \in Slots :
                (task[h] # Free /\ (~task[h].enabled \/ task[h].removed)) =>
                    Running(execs', h) <= Running(execs, h)]_vars

\* remove_task has returned true while a job of the task it removed is in
\* the pool, its action not yet returned
C38_Witness ==
    /\ ret.out = "true"
    /\ \E e \in DOMAIN execs :
          /\ e.pc = "run"
          /\ task[e.h].kind = "every"
          /\ task[e.h].removed

\* C39: with the lock free, every task that is in the store or in the holding
\* multimap and is not removed is the task the index maps its id to, through
\* an entry whose node exists; so no two tasks of one id, neither removed, are
\* in the two multimaps, and no sweep has taken away or redirected the entry
\* of a task registered after the removal of another task of the same id.
C39_IndexAgrees ==
    lock = "free" =>
        \A h \in Slots :
            (task[h] # Free /\ ~task[h].removed /\ (InTasks(h) \/ InHolding(h))) =>
                /\ Present(task[h].id)
                /\ Valid(tasks_map[task[h].id])
                /\ Target(task[h].id) = h

\* C40: an interval task moved into the holding multimap leaves it again,
\* whether its action returns or throws.  Only the task's wrapper erases its
\* node (completed_interval_tasks.erase(inserted_task)), so the claim needs
\* every node of the holding multimap to have its wrapper in the pool, the
\* erase still ahead of it; a node without one stays for ever, and so does
\* the index entry that leads to it until a remove_task takes it away.
C40_HeldLeaves ==
    \A n \in completed_interval_tasks :
        \E e \in DOMAIN execs : e.h = n.h /\ e.key = n.time
====
